---------------------------- MODULE Spec2Model ----------------------------
(***************************************************************************)
(* Model of record.py: the commute-time recorder.  A blocking main loop    *)
(* computes the next calendar-aligned run instant, sleeps until then and   *)
(* runs update_commute_time, which probes four routes one after the other  *)
(* and writes each successful duration to that route's Prometheus gauge.   *)
(*                                                                         *)
(* Civil time is Europe/Vienna wall-clock time on days without a UTC       *)
(* offset change; a datetime is a record of its fields, a timedelta a      *)
(* record of whole seconds and microseconds (0..999999).                   *)
(***************************************************************************)
EXTENDS Integers, Sequences, FiniteSets, TLC

VARIABLES
    clock,               \* the wall clock, what datetime.now(CET) returns
    pc,                  \* position of the single thread of control
    next_scheduled_run,  \* main loop local (line 93)
    sleep_duration,      \* main loop local (line 94), a timedelta
    slept,               \* whether time.sleep was called in this iteration
    now,                 \* update_commute_time's local `now` (line 36)
    idx,                 \* the block of update_commute_time being executed
    secs,                \* values returned by get_travel_time in this cycle
    calls,               \* gmaps.distance_matrix calls issued in this cycle
    in_flight,           \* external calls issued and not yet returned
    active,              \* activations of update_commute_time in progress
    gauges,              \* value of each Prometheus gauge
    set_calls,           \* Gauge.set calls made in this cycle
    log,                 \* lines printed since the top of this iteration
    last_ok,             \* per route, its most recent successful measurement
    outcome,             \* what the most recent external call produced
    iterations,          \* loop iterations begun
    cycles,              \* update cycles begun
    ticks,               \* clock advances observed in this iteration
    exposed              \* gauge values served by the most recent scrape

vars == <<clock, pc, next_scheduled_run, sleep_duration, slept, now, idx,
          secs, calls, in_flight, active, gauges, set_calls, log, last_ok,
          outcome, iterations, cycles, ticks, exposed>>

---------------------------------------------------------------------------
(* Bounds of the exploration. *)

MaxCycles == 2
MaxTicks == 1

(* Ranges of the datetime fields. *)
HoursPerDay == 24
MinutesPerHour == 60
SecondsPerMinute == 60
MicrosPerSecond == 1000000

SecondsPerHour == MinutesPerHour * SecondsPerMinute
SecondsPerDay == HoursPerDay * SecondsPerHour

(* Python's None, and the state of a gauge on which set() was never called. *)
None == -1
Unset == -2

---------------------------------------------------------------------------
(* datetime and timedelta arithmetic *)

DT(d, h, m, s, us) ==
    [day |-> d, hour |-> h, minute |-> m, second |-> s, microsecond |-> us]

TD(s, us) == [seconds |-> s, microseconds |-> us]

timedelta_hours(h) == TD(h * SecondsPerHour, 0)

SecondOfDay(dt) ==
    (dt.hour * MinutesPerHour + dt.minute) * SecondsPerMinute + dt.second

\* datetime + timedelta
Plus(dt, td) ==
    LET us == dt.microsecond + td.microseconds
        s  == dt.day * SecondsPerDay + SecondOfDay(dt) + td.seconds
              + (us \div MicrosPerSecond)
        sod == s % SecondsPerDay
    IN DT(s \div SecondsPerDay,
          sod \div SecondsPerHour,
          (sod % SecondsPerHour) \div SecondsPerMinute,
          sod % SecondsPerMinute,
          us % MicrosPerSecond)

\* datetime - datetime, normalised like timedelta: 0 <= microseconds < 10^6
Minus(a, b) ==
    LET us == a.microsecond - b.microsecond
        s  == (a.day - b.day) * SecondsPerDay + SecondOfDay(a) - SecondOfDay(b)
    IN IF us < 0 THEN TD(s - 1, us + MicrosPerSecond) ELSE TD(s, us)

\* `sleep_duration >= 0` in place of `> 0`
total_seconds_not_negative(td) == td.seconds >= 0

\* timedelta.total_seconds() > 0
total_seconds_positive(td) ==
    td.seconds > 0 \/ (td.seconds = 0 /\ td.microseconds > 0)

\* a < b on datetimes
Before(a, b) ==
    \/ a.day < b.day
    \/ a.day = b.day /\ SecondOfDay(a) < SecondOfDay(b)
    \/ a.day = b.day /\ SecondOfDay(a) = SecondOfDay(b)
                     /\ a.microsecond < b.microsecond

Epoch == DT(0, 0, 0, 0, 0)

---------------------------------------------------------------------------
(* get_next_run_time, lines 65-86, as a function of the `now` it reads *)

\* A fixed-period timer: a quarter of an hour after `now`
get_next_run_time_fixed(t) == Plus(t, TD(15 * SecondsPerMinute, 0))

\* get_next_run_time with `now.hour > 20` for the night test
get_next_run_time_gt20(t) ==
    IF t.hour > 20 \/ t.hour < 6
    THEN Plus([t EXCEPT !.minute = 0, !.second = 0, !.microsecond = 0],
              timedelta_hours(1))
    ELSE IF t.minute < 15
         THEN [t EXCEPT !.minute = 15, !.second = 0, !.microsecond = 0]
    ELSE IF t.minute < 30
         THEN [t EXCEPT !.minute = 30, !.second = 0, !.microsecond = 0]
    ELSE IF t.minute < 45
         THEN [t EXCEPT !.minute = 45, !.second = 0, !.microsecond = 0]
    ELSE Plus([t EXCEPT !.minute = 0, !.second = 0, !.microsecond = 0],
              timedelta_hours(1))

\* get_next_run_time with `<=` in the quarter-hour tests
get_next_run_time_le(t) ==
    IF t.hour >= 20 \/ t.hour < 6
    THEN Plus([t EXCEPT !.minute = 0, !.second = 0, !.microsecond = 0],
              timedelta_hours(1))
    ELSE IF t.minute <= 15
         THEN [t EXCEPT !.minute = 15, !.second = 0, !.microsecond = 0]
    ELSE IF t.minute <= 30
         THEN [t EXCEPT !.minute = 30, !.second = 0, !.microsecond = 0]
    ELSE IF t.minute <= 45
         THEN [t EXCEPT !.minute = 45, !.second = 0, !.microsecond = 0]
    ELSE Plus([t EXCEPT !.minute = 0, !.second = 0, !.microsecond = 0],
              timedelta_hours(1))

\* get_next_run_time rounding down to the boundary that has just passed
get_next_run_time_floor(t) ==
    IF t.hour >= 20 \/ t.hour < 6
    THEN [t EXCEPT !.minute = 0, !.second = 0, !.microsecond = 0]
    ELSE IF t.minute < 15
         THEN [t EXCEPT !.minute = 0, !.second = 0, !.microsecond = 0]
    ELSE IF t.minute < 30
         THEN [t EXCEPT !.minute = 15, !.second = 0, !.microsecond = 0]
    ELSE IF t.minute < 45
         THEN [t EXCEPT !.minute = 30, !.second = 0, !.microsecond = 0]
    ELSE [t EXCEPT !.minute = 45, !.second = 0, !.microsecond = 0]

get_next_run_time(t) ==
    IF t.hour >= 20 \/ t.hour < 6
    THEN Plus([t EXCEPT !.minute = 0, !.second = 0, !.microsecond = 0],
              timedelta_hours(1))
    ELSE IF t.minute < 15
         THEN [t EXCEPT !.minute = 15, !.second = 0, !.microsecond = 0]
    ELSE IF t.minute < 30
         THEN [t EXCEPT !.minute = 30, !.second = 0, !.microsecond = 0]
    ELSE IF t.minute < 45
         THEN [t EXCEPT !.minute = 45, !.second = 0, !.microsecond = 0]
    ELSE Plus([t EXCEPT !.minute = 0, !.second = 0, !.microsecond = 0],
              timedelta_hours(1))


---------------------------------------------------------------------------
(* The gauges, lines 20-23, each with the directed route its name stands   *)
(* for (the help text of commute_time_seconds_to_ekz repeats that of       *)
(* commute_time_seconds_to_b3; the name tells the routes apart).           *)

GaugeRoute ==
    [commute_time_seconds_to_b3       |-> <<"EKZ_WEST", "B3">>,
     commute_time_seconds_to_ekz      |-> <<"B3", "EKZ_WEST">>,
     commute_time_seconds_trins_to_b3 |-> <<"TRINS", "B3">>,
     commute_time_seconds_b3_to_trins |-> <<"B3", "TRINS">>]

GaugeNames == DOMAIN GaugeRoute

RouteSet == {GaugeRoute[g] : g \in GaugeNames}

(* The blocks with the gauges of the first two exchanged. *)
Blocks_swapped ==
    << [orig |-> "B3", dest |-> "EKZ_WEST",
        gauge |-> "commute_time_seconds_to_b3", label |-> "B3 -> EKZ West"],
       [orig |-> "EKZ_WEST", dest |-> "B3",
        gauge |-> "commute_time_seconds_to_ekz", label |-> "EKZ West -> B3"],
       [orig |-> "TRINS", dest |-> "B3",
        gauge |-> "commute_time_seconds_trins_to_b3", label |-> "Trins -> B3"],
       [orig |-> "B3", dest |-> "TRINS",
        gauge |-> "commute_time_seconds_b3_to_trins", label |-> "B3 -> Trins"] >>

(* update_commute_time's four hardcoded blocks, lines 37-63: the origin and *)
(* destination handed to get_travel_time, the gauge that is set and the     *)
(* route text of the success line.                                          *)
Blocks ==
    << [orig |-> "B3", dest |-> "EKZ_WEST",
        gauge |-> "commute_time_seconds_to_ekz", label |-> "B3 -> EKZ West"],
       [orig |-> "EKZ_WEST", dest |-> "B3",
        gauge |-> "commute_time_seconds_to_b3", label |-> "EKZ West -> B3"],
       [orig |-> "TRINS", dest |-> "B3",
        gauge |-> "commute_time_seconds_trins_to_b3", label |-> "Trins -> B3"],
       [orig |-> "B3", dest |-> "TRINS",
        gauge |-> "commute_time_seconds_b3_to_trins", label |-> "B3 -> Trins"] >>

NumBlocks == Len(Blocks)

---------------------------------------------------------------------------
(* The external call and get_travel_time, lines 26-33 *)

\* An exception propagating out of get_travel_time.
Raise == -3

\* Durations the routing service may report.
Durations == {0, 1200}

\* What gmaps.distance_matrix may do: answer OK with a duration, answer with
\* a non-OK element status, answer OK without duration_in_traffic, or raise.
Responses ==
    {[raised |-> FALSE, status |-> "OK", value |-> d] : d \in Durations}
    \cup {[raised |-> FALSE, status |-> "NOT_FOUND", value |-> None],
          [raised |-> FALSE, status |-> "OK", value |-> None],
          [raised |-> TRUE, status |-> "", value |-> None]}

\* The request without departure_time, for which no live-traffic duration
\* is computed.
distance_matrix_call_no_departure(orig, dest) ==
    [orig |-> orig, dest |-> dest, mode |-> "driving", departure_time |-> ""]

\* The request of line 28.
distance_matrix_call(orig, dest) ==
    [orig |-> orig, dest |-> dest, mode |-> "driving", departure_time |-> "now"]

\* get_travel_time with a handler that turns an exception into None
get_travel_time_swallow(resp) ==
    IF resp.raised THEN None
    ELSE IF resp.status # "OK" THEN None
    ELSE IF resp.value = None THEN None
    ELSE resp.value

\* get_travel_time answering 0 where it should answer None
get_travel_time_zero(resp) ==
    IF resp.raised THEN Raise
    ELSE IF resp.status # "OK" THEN 0
    ELSE IF resp.value = None THEN Raise
    ELSE resp.value

get_travel_time(resp) ==
    IF resp.raised THEN Raise
    ELSE IF resp.status # "OK" THEN None
    ELSE IF resp.value = None THEN Raise   \* KeyError on the missing field
    ELSE resp.value

\* `if secs_...:` in place of `is not None`: a duration of 0 counts as absent
is_not_None_truthy(v) == v # None /\ v # 0

\* `if secs_... is not None`, lines 38, 45, 52, 59
is_not_None(v) == v # None

\* A call that does not block: control does not wait for the answer
AfterCall_async == "call"

\* The call of line 28 blocks: control waits for the answer.
AfterCall == "await"

\* The lines update_commute_time prints, lines 40 and 42 (and their copies).
\* `route` is the route text the line contains, "" when it contains none.
SuccessLine(t, i, v) ==
    [level |-> "INFO", ts |-> t, route |-> Blocks[i].label, value |-> v]

ErrorLine(t, i) ==
    [level |-> "ERROR", ts |-> t, route |-> "", value |-> None]

\* The schedule line of line 97.
ScheduleLine(t, d) ==
    [level |-> "SCHED", ts |-> t, route |-> "", value |-> d.seconds]

---------------------------------------------------------------------------
(* The environment: when the process starts, how far the clock moves       *)
(* between two statements or during an external call, and by how much      *)
(* time.sleep oversleeps.                                                  *)

StartTimes ==
    {DT(0, 5, 59, 59, 999999), DT(0, 10, 5, 0, 0),
     DT(0, 19, 50, 0, 0), DT(0, 23, 40, 0, 0)}

TickSteps == {TD(1200, 0)}

Overshoots == {TD(0, 0), TD(0, 250000)}

\* time.sleep(int(sleep_duration)): the whole seconds only
SleepArg_truncated(d) == TD(d.seconds, 0)

\* The argument handed to time.sleep, line 99.
SleepArg(d) == d

---------------------------------------------------------------------------
(* State after start_http_server and the start-up line, lines 89-90 *)

\* A start that measures first and schedules afterwards
InitRest_update_first ==
    /\ pc = "update"
    /\ next_scheduled_run = Epoch
    /\ sleep_duration = TD(0, 0)
    /\ slept = FALSE
    /\ now = Epoch
    /\ idx = 0
    /\ secs = <<>>
    /\ calls = <<>>
    /\ in_flight = 0
    /\ active = 0
    /\ gauges = [g \in GaugeNames |-> Unset]
    /\ set_calls = <<>>
    /\ log = <<>>
    /\ last_ok = [r \in RouteSet |-> Unset]
    /\ outcome = [raised |-> FALSE, status |-> "", value |-> None]
    /\ iterations = 0
    /\ cycles = 0
    /\ ticks = 0
    /\ exposed = [g \in GaugeNames |-> Unset]

InitRest ==
    /\ pc = "schedule"
    /\ next_scheduled_run = Epoch
    /\ sleep_duration = TD(0, 0)
    /\ slept = FALSE
    /\ now = Epoch
    /\ idx = 0
    /\ secs = <<>>
    /\ calls = <<>>
    /\ in_flight = 0
    /\ active = 0
    /\ gauges = [g \in GaugeNames |-> Unset]
    /\ set_calls = <<>>
    /\ log = <<>>
    /\ last_ok = [r \in RouteSet |-> Unset]
    /\ outcome = [raised |-> FALSE, status |-> "", value |-> None]
    /\ iterations = 0
    /\ cycles = 0
    /\ ticks = 0
    /\ exposed = [g \in GaugeNames |-> Unset]

Init == clock \in StartTimes /\ InitRest

\* The clock advances while the loop is between lines 93 and 94 or waits
\* for the external call.  (Time that passes around time.sleep is part of
\* its overshoot.)
Tick(d) ==
    /\ pc \in {"compute_sleep", "await"}
    /\ ticks < MaxTicks
    /\ clock' = Plus(clock, d)
    /\ ticks' = ticks + 1
    /\ UNCHANGED <<pc, next_scheduled_run, sleep_duration, slept, now, idx,
                   secs, calls, in_flight, active, gauges, set_calls, log,
                   last_ok, outcome, iterations, cycles,
                   exposed>>

\* The loop with its body run once: control leaves after the update.
AfterUpdate_exit == "exited"

\* Line 92, `while True`: after update_commute_time returns, control is back
\* at line 93.
AfterUpdate == "schedule"

\* Line 93: next_scheduled_run = get_next_run_time()
ComputeNextRun ==
    /\ pc = "schedule"
    /\ iterations < MaxCycles
    /\ next_scheduled_run' = get_next_run_time(clock)
    /\ iterations' = iterations + 1
    /\ slept' = FALSE
    /\ log' = <<>>
    /\ ticks' = 0
    /\ pc' = "compute_sleep"
    /\ UNCHANGED <<clock, sleep_duration, now, idx, secs, calls, in_flight,
                   active, gauges, set_calls, last_ok, outcome, cycles,
                   exposed>>

\* Lines 94-98: the sleep duration, and the schedule line if it is positive
ComputeSleep ==
    /\ pc = "compute_sleep"
    /\ LET d == Minus(next_scheduled_run, clock) IN
         /\ sleep_duration' = d
         /\ IF total_seconds_positive(d)
            THEN /\ log' = Append(log, ScheduleLine(clock, d))
                 /\ pc' = "sleeping"
            ELSE /\ log' = log
                 /\ pc' = "update"
    /\ UNCHANGED <<clock, next_scheduled_run, slept, now, idx, secs, calls,
                   in_flight, active, gauges, set_calls, last_ok, outcome,
                   iterations, cycles, ticks,
                   exposed>>

\* Line 99: time.sleep returns once at least its argument has elapsed
Sleep(over) ==
    /\ pc = "sleeping"
    /\ clock' = Plus(Plus(clock, SleepArg(sleep_duration)), over)
    /\ slept' = TRUE
    /\ pc' = "update"
    /\ UNCHANGED <<next_scheduled_run, sleep_duration, now, idx, secs, calls,
                   in_flight, active, gauges, set_calls, log, last_ok,
                   outcome, iterations, cycles, ticks, exposed>>

\* Lines 102 and 36: update_commute_time is entered and reads the clock
BeginUpdate ==
    /\ pc = "update"
    /\ now' = clock
    /\ idx' = 1
    /\ secs' = <<>>
    /\ calls' = <<>>
    /\ set_calls' = <<>>
    /\ active' = active + 1
    /\ cycles' = cycles + 1
    /\ pc' = "call"
    /\ UNCHANGED <<clock, next_scheduled_run, sleep_duration, slept,
                   in_flight, gauges, log, last_ok, outcome, iterations,
                   ticks,
                   exposed>>

\* Line 28, reached from lines 37, 44, 51, 58: the request goes out
ProbeCall ==
    /\ pc = "call"
    /\ idx \in 1..NumBlocks
    /\ calls' = Append(calls,
                       distance_matrix_call(Blocks[idx].orig, Blocks[idx].dest))
    /\ in_flight' = in_flight + 1
    /\ pc' = AfterCall
    /\ UNCHANGED <<clock, next_scheduled_run, sleep_duration, slept, now, idx,
                   secs, active, gauges, set_calls, log, last_ok, outcome,
                   iterations, cycles, ticks,
                   exposed>>

\* Lines 28-33 and the rest of the block: the external call ends, and the
\* block sets its gauge and prints, or prints the error line; an exception
\* unwinds update_commute_time and the main loop, and the process ends.
ProbeReturn(resp) ==
    /\ pc = "await"
    /\ in_flight > 0
    /\ outcome' = resp
    /\ LET v == get_travel_time(resp)
           r == <<calls[Len(calls)].orig, calls[Len(calls)].dest>>
       IN
         IF v = Raise
         THEN /\ pc' = "crashed"
              /\ in_flight' = 0
              /\ active' = 0
              /\ UNCHANGED <<idx, secs, gauges, set_calls, log, last_ok>>
         ELSE /\ in_flight' = in_flight - 1
              /\ secs' = Append(secs, v)
              /\ last_ok' = IF resp.status = "OK"
                            THEN [last_ok EXCEPT ![r] = resp.value]
                            ELSE last_ok
              /\ IF is_not_None(v)
                 THEN /\ gauges' = [gauges EXCEPT ![Blocks[idx].gauge] = v]
                      /\ set_calls' = Append(set_calls,
                                             <<Blocks[idx].gauge, v>>)
                      /\ log' = Append(log, SuccessLine(now, idx, v))
                 ELSE /\ gauges' = gauges
                      /\ set_calls' = set_calls
                      /\ log' = Append(log, ErrorLine(now, idx))
              /\ idx' = idx + 1
              /\ IF idx = NumBlocks
                 THEN pc' = AfterUpdate /\ active' = active - 1
                 ELSE pc' = "call" /\ active' = active
    /\ UNCHANGED <<clock, next_scheduled_run, sleep_duration, slept, now,
                   calls, iterations, cycles, ticks,
                   exposed>>

Next ==
    \/ \E d \in TickSteps : Tick(d)
    \/ ComputeNextRun
    \/ ComputeSleep
    \/ \E over \in Overshoots : Sleep(over)
    \/ BeginUpdate
    \/ ProbeCall
    \/ \E resp \in Responses : ProbeReturn(resp)

Spec == Init /\ [][Next]_vars

---------------------------------------------------------------------------
(* The loop running for days.  The iterations are those of Spec; the      *)
(* counters stop at MaxCycles and the dates are counted from the day of    *)
(* the current iteration, so that the loop is followed around the clock.   *)

Saturated(n) == IF n < MaxCycles THEN n + 1 ELSE MaxCycles

\* The date d counted from the day of the date t.
Rebased(d, t) == [d EXCEPT !.day = d.day - t.day]

\* Line 93, for any iteration of the loop.
LoopComputeNextRun ==
    /\ pc = "schedule"
    /\ clock' = Rebased(clock, clock)
    /\ now' = Rebased(now, clock)
    /\ next_scheduled_run' = get_next_run_time(clock')
    /\ iterations' = Saturated(iterations)
    /\ slept' = FALSE
    /\ log' = <<>>
    /\ ticks' = 0
    /\ pc' = "compute_sleep"
    /\ UNCHANGED <<sleep_duration, idx, secs, calls, in_flight, active,
                   gauges, set_calls, last_ok, outcome, cycles, exposed>>

\* Lines 102 and 36, for any iteration of the loop.
LoopBeginUpdate ==
    /\ pc = "update"
    /\ now' = clock
    /\ idx' = 1
    /\ secs' = <<>>
    /\ calls' = <<>>
    /\ set_calls' = <<>>
    /\ active' = active + 1
    /\ cycles' = Saturated(cycles)
    /\ pc' = "call"
    /\ UNCHANGED <<clock, next_scheduled_run, sleep_duration, slept,
                   in_flight, gauges, log, last_ok, outcome, iterations,
                   ticks, exposed>>

\* The time an external call takes when cycles are short: two of these steps
\* stay below a quarter of an hour.
CallSteps == {TD(7 * SecondsPerMinute + 29, 999999)}

\* The clock advances while a call is outstanding.
CallTick(d) == pc = "await" /\ Tick(d)

\* The calls that return without a fault: a duration, or a status that is
\* not OK.
LoopResponses ==
    {r \in Responses : ~r.raised /\ (r.status = "OK" => r.value = 1200)}

NextLoop ==
    \/ \E d \in CallSteps : CallTick(d)
    \/ LoopComputeNextRun
    \/ ComputeSleep
    \/ Sleep(TD(0, 0))
    \/ LoopBeginUpdate
    \/ ProbeCall
    \/ \E resp \in LoopResponses : ProbeReturn(resp)

\* The loop without faults, with sleeps that return on time and cycles
\* shorter than a quarter of an hour.
SpecLoop == Init /\ [][NextLoop]_vars

\* The loop whose statements are each executed in the end, whose sleeps
\* return and whose external calls all return, without a fault.
SpecLive ==
    /\ SpecLoop
    /\ WF_vars(LoopComputeNextRun)
    /\ WF_vars(ComputeSleep)
    /\ WF_vars(Sleep(TD(0, 0)))
    /\ WF_vars(LoopBeginUpdate)
    /\ WF_vars(ProbeCall)
    /\ WF_vars(\E resp \in LoopResponses : ProbeReturn(resp))

\* The metrics endpoint started at line 89 serves a scrape: it reads the
\* gauges as they are, at any moment of the loop, while the process lives.
Scrape ==
    /\ pc # "crashed"
    /\ exposed' = gauges
    /\ UNCHANGED <<clock, pc, next_scheduled_run, sleep_duration, slept, now,
                   idx, secs, calls, in_flight, active, gauges, set_calls, log,
                   last_ok, outcome, iterations, cycles, ticks>>

\* The environment of the scrape specification: the process starts at
\* 10:05, sleeps return on time and every call that returns is answered
\* with a duration.
ScrapeResponses == {r \in Responses : ~r.raised /\ r.value # None}

InitScrape == clock = DT(0, 10, 5, 0, 0) /\ InitRest

NextScrape ==
    \/ \E d \in TickSteps : Tick(d)
    \/ ComputeNextRun
    \/ ComputeSleep
    \/ Sleep(TD(0, 0))
    \/ BeginUpdate
    \/ ProbeCall
    \/ \E resp \in ScrapeResponses : ProbeReturn(resp)
    \/ Scrape

\* The loop together with the scrapes of the endpoint.
SpecScrape == InitScrape /\ [][NextScrape]_vars

---------------------------------------------------------------------------
(* The scheduling function on its own: the process starts at any sampled   *)
(* time of day and line 93 applies get_next_run_time to it.                *)

SampleTimes ==
    {DT(0, h, m, sc, us) : h \in 0..(HoursPerDay - 1),
                           m \in {0, 5, 14, 15, 29, 30, 44, 45, 59},
                           sc \in {0, 59}, us \in {0, 999999}}

InitSched == clock \in SampleTimes /\ InitRest

NextSched == ComputeNextRun

SpecSched == InitSched /\ [][NextSched]_vars

---------------------------------------------------------------------------
(* Properties of the update cycle *)

\* The routes in the order the cycle is to probe them.
CatalogOrder ==
    << <<"B3", "EKZ_WEST">>, <<"EKZ_WEST", "B3">>,
       <<"TRINS", "B3">>, <<"B3", "TRINS">> >>

GaugeFor(route) == CHOOSE g \in GaugeNames : GaugeRoute[g] = route

\* A step in which get_travel_time hands a value back to the cycle.
ProbeAnswered == Len(secs') = Len(secs) + 1

C2_AbsentLogsRoute ==
    [][(ProbeAnswered /\ secs'[Len(secs')] = None) =>
         /\ gauges' = gauges
         /\ Len(log') = Len(log) + 1
         /\ log'[Len(log')].level = "ERROR"
         /\ log'[Len(log')].route = Blocks[Len(secs')].label
      ]_vars

NumIn(seq, S) == Cardinality({k \in DOMAIN seq : seq[k] \in S})
ErrorLines == Cardinality({k \in DOMAIN log : log[k].level = "ERROR"})

\* C3: a cycle does not stop at an absent result: without a fault the four
\* routes are probed once each in catalog order, the gauge writes are as many
\* as the durations returned and the error lines as many as the absent
\* results.
C3_NoEarlyExit ==
    /\ Len(calls) <= Len(CatalogOrder)
    /\ \A k \in DOMAIN calls : <<calls[k].orig, calls[k].dest>> = CatalogOrder[k]
    /\ Len(calls) = Len(secs) + in_flight \/ pc = "crashed"
    /\ Len(set_calls) = Len(secs) - NumIn(secs, {None})
    /\ pc \in {"call", "await", "schedule", "crashed"} =>
           ErrorLines = NumIn(secs, {None})
    /\ (pc = "schedule" /\ cycles > 0) =>
           Len(secs) = Len(CatalogOrder) /\ Len(calls) = Len(CatalogOrder)

C3_Witness ==
    /\ pc = "schedule"
    /\ secs = <<1200, 0, None, 1200>>
    /\ Len(set_calls) = 3
    /\ ErrorLines = 1

\* The state a terminated process leaves behind.
Terminated == pc = "crashed"

\* C4: an absent result never ends the cycle with a fault; a fault raised by
\* the external call ends the process, and after it no cycle, probe or gauge
\* write happens.
C4_FaultTerminates ==
    /\ [](/\ outcome.raised => Terminated
          /\ (~outcome.raised /\ outcome.status # "OK") => ~Terminated)
    /\ [][Terminated => /\ Terminated'
                        /\ UNCHANGED <<cycles, iterations, calls, secs, gauges,
                                       set_calls>>]_vars

C4_Witness ==
    /\ Terminated
    /\ outcome.raised
    /\ Len(secs) = 2
    /\ secs[1] = None

---------------------------------------------------------------------------
(* Properties of get_next_run_time, checked under SpecSched, where the     *)
(* clock still shows the instant line 93 read.                             *)

Computed == pc = "compute_sleep"

NightHour(t) == t.hour >= 20 \/ t.hour < 6

\* floor(t, 1h) + 1h, field by field
TopOfNextHour(t) ==
    IF t.hour = 23 THEN DT(t.day + 1, 0, 0, 0, 0)
                   ELSE DT(t.day, t.hour + 1, 0, 0, 0)

\* C5: in night mode (hour >= 20 or hour < 6) the next run is the top of the
\* next hour, with minute, second and microsecond 0; 20:00:00 gives 21:00:00,
\* 05:59:59 gives 06:00:00 and 23:30:00 gives 00:00:00 of the next day.
C5_NightTopOfNextHour ==
    Computed =>
      /\ NightHour(clock) => next_scheduled_run = TopOfNextHour(clock)
      /\ clock = DT(0, 20, 0, 0, 0) => next_scheduled_run = DT(0, 21, 0, 0, 0)
      /\ clock = DT(0, 5, 59, 59, 0) => next_scheduled_run = DT(0, 6, 0, 0, 0)
      /\ clock = DT(0, 23, 30, 0, 0) => next_scheduled_run = DT(1, 0, 0, 0, 0)

C5_Witness ==
    /\ Computed
    /\ clock = DT(0, 23, 30, 0, 0)
    /\ next_scheduled_run.day = 1
    /\ next_scheduled_run.hour = 0

QuarterOfAnHour == TD(15 * SecondsPerMinute, 0)

\* C6: in day mode (hour in 6..19) the next run is the first of the
\* boundaries :00, :15, :30, :45 strictly after the current time, so
\* now < next_run <= now + 15 minutes; 06:00:00 gives 06:15:00, 10:05:00
\* gives 10:15:00 and 19:59 gives 20:00.
C6_DayNextQuarter ==
    Computed =>
      /\ ~NightHour(clock) =>
           /\ next_scheduled_run.minute \in {0, 15, 30, 45}
           /\ next_scheduled_run.second = 0
           /\ next_scheduled_run.microsecond = 0
           /\ Before(clock, next_scheduled_run)
           /\ ~Before(Plus(clock, QuarterOfAnHour), next_scheduled_run)
      /\ clock = DT(0, 6, 0, 0, 0) => next_scheduled_run = DT(0, 6, 15, 0, 0)
      /\ clock = DT(0, 10, 5, 0, 0) => next_scheduled_run = DT(0, 10, 15, 0, 0)
      /\ clock = DT(0, 19, 59, 0, 0) => next_scheduled_run = DT(0, 20, 0, 0, 0)

C6_Witness ==
    /\ Computed
    /\ clock = DT(0, 19, 59, 59, 999999)
    /\ next_scheduled_run = DT(0, 20, 0, 0, 0)

---------------------------------------------------------------------------
(* Properties of the main loop *)

\* C7: update cycles never overlap: at most one activation of
\* update_commute_time and at most one external call exist at any time, and
\* a cycle is entered only when the previous one has returned and the sleep
\* of this iteration is over.
C7_CyclesNeverOverlap ==
    /\ active \in {0, 1}
    /\ in_flight \in {0, 1}
    /\ in_flight = 1 => active = 1
    /\ active = 1 <=> pc \in {"call", "await"}
    /\ pc = "update" =>
         /\ cycles > 0 => Len(secs) = NumBlocks
         /\ total_seconds_positive(sleep_duration) => slept
         /\ ~Before(clock, next_scheduled_run)

C7_Witness ==
    /\ cycles = 2
    /\ pc = "await"
    /\ in_flight = 1
    /\ active = 1

\* C8: every gauge holds its route's most recent successful measurement, or
\* is still unset when none has succeeded, in every state a scrape may see;
\* and a gauge that has been set never becomes unset again.
C8_GaugeIsLastSuccess ==
    /\ [](\A g \in GaugeNames : gauges[g] = last_ok[GaugeRoute[g]])
    /\ [][\A g \in GaugeNames : gauges[g] # Unset => gauges'[g] # Unset]_vars

C8_Witness ==
    /\ cycles = 2
    /\ pc = "await"
    /\ secs = <<None, 0>>
    /\ gauges["commute_time_seconds_to_ekz"] = 1200
    /\ gauges["commute_time_seconds_to_b3"] = 0

\* C9: an iteration computes one next-run instant, sleeps exactly when
\* next_run - now is positive, and then runs one update cycle, which does not
\* start before that next-run instant.
C9_OneCyclePerIteration ==
    /\ pc \in {"compute_sleep", "sleeping", "update"} => iterations = cycles + 1
    /\ pc \in {"schedule", "call", "await", "crashed"} => iterations = cycles
    /\ pc = "sleeping" =>
         /\ total_seconds_positive(sleep_duration)
         /\ ~slept
         /\ sleep_duration = Minus(next_scheduled_run, clock)
    /\ pc = "update" =>
         /\ slept <=> total_seconds_positive(sleep_duration)
         /\ ~Before(clock, next_scheduled_run)
    /\ pc \in {"call", "await"} => ~Before(now, next_scheduled_run)

C9_Witness ==
    /\ pc = "call"
    /\ ~slept
    /\ sleep_duration = TD(0, 0)
    /\ now = next_scheduled_run
    /\ cycles = 1

---------------------------------------------------------------------------
(* Properties of the probe and of the log *)

\* C11: get_travel_time makes one external call per invocation and never a
\* second one, always with mode "driving" and departure time "now"; an OK
\* element yields its duration_in_traffic, any other status yields None
\* without raising.
C11_ProbeOneCall ==
    /\ [](/\ \A k \in DOMAIN calls : /\ calls[k].mode = "driving"
                                     /\ calls[k].departure_time = "now"
          /\ ~Terminated => Len(calls) = Len(secs) + in_flight
          /\ Terminated => Len(calls) = Len(secs) + 1)
    /\ [][ProbeAnswered =>
            /\ calls' = calls
            /\ outcome'.status = "OK" => secs'[Len(secs')] = outcome'.value
            /\ outcome'.status # "OK" => secs'[Len(secs')] = None]_vars
    /\ [][(pc = "await" /\ ~outcome'.raised /\ outcome'.status # "OK"
             /\ in_flight' < in_flight) => ProbeAnswered /\ ~Terminated']_vars

C11_Witness ==
    /\ pc = "call"
    /\ outcome.status = "NOT_FOUND"
    /\ secs = <<0, None>>
    /\ Len(calls) = 2

SchedLines == Cardinality({k \in DOMAIN log : log[k].level = "SCHED"})
MeasurementLines ==
    Cardinality({k \in DOMAIN log : log[k].level \in {"INFO", "ERROR"}})

\* The positions of an iteration after the schedule decision of lines 94-98.
Decided ==
    pc \in {"sleeping", "update", "call", "await", "crashed"}
    \/ (pc = "schedule" /\ iterations > 0)

InCycleOrAfter ==
    pc \in {"call", "await", "crashed"} \/ (pc = "schedule" /\ cycles > 0)

\* C12 as stated: every iteration prints exactly one schedule line and every
\* probed route exactly one measurement line.
C12_OneLinePerDecision ==
    /\ Decided => SchedLines = 1
    /\ InCycleOrAfter => MeasurementLines = Len(calls) - in_flight

\* C12, amended: an iteration prints one schedule line when the computed
\* sleep duration is positive and none when it is not; every probe that
\* returns a duration or None prints exactly one measurement line, a probe
\* that raises prints none; every line carries a timestamp.
C12_LogLines ==
    /\ Decided =>
         SchedLines = IF sleep_duration.seconds > 0
                         \/ (sleep_duration.seconds = 0
                             /\ sleep_duration.microseconds > 0)
                      THEN 1 ELSE 0
    /\ InCycleOrAfter =>
         /\ MeasurementLines = Len(secs)
         /\ \A k \in DOMAIN log :
              log[k].level \in {"INFO", "ERROR"} => log[k].ts = now
    /\ \A k \in DOMAIN log :
         log[k].level = "SCHED" =>
            /\ Before(log[k].ts, next_scheduled_run)
            /\ log[k].value = sleep_duration.seconds

C12_Witness ==
    /\ pc = "schedule"
    /\ cycles = 1
    /\ SchedLines = 0
    /\ MeasurementLines = 4

---------------------------------------------------------------------------
(* Properties of the schedule over successive iterations *)

\* The step of line 93 in an iteration after the first.
Rescheduled == pc = "schedule" /\ pc' = "compute_sleep" /\ iterations > 0

DayHour(t) == t.hour >= 6 /\ t.hour < 20

\* t is one of the instants of the grid: a full hour, or a quarter of an hour
\* of the hours 6 to 19.
OnGrid(t) ==
    /\ t.second = 0
    /\ t.microsecond = 0
    /\ t.minute = 0 \/ (DayHour(t) /\ t.minute \in {15, 30, 45})

\* The distance between two instants of the grid around t.
GridStep(t) == IF DayHour(t) THEN TD(15 * SecondsPerMinute, 0)
                             ELSE TD(SecondsPerHour, 0)

\* g is the first instant of the grid strictly after t.
FirstBoundaryAfter(t, g) ==
    /\ OnGrid(g)
    /\ Before(t, g)
    /\ ~Before(Plus(t, GridStep(t)), g)

\* C16: the next-run instants of successive iterations are strictly
\* increasing, so no boundary starts two cycles, also when the loop did not
\* sleep.
C16_NextRunIncreases ==
    [][Rescheduled => Before(next_scheduled_run, next_scheduled_run')]_vars

C16_Witness ==
    /\ iterations = 2
    /\ pc = "compute_sleep"
    /\ ~slept
    /\ sleep_duration = TD(0, 0)
    /\ Before(now, next_scheduled_run)

\* C17: missed boundaries are not caught up: whatever boundaries passed while
\* the cycle ran, the next run is the first boundary strictly after the
\* instant line 93 reads, no cycle is queued for the others, and so fewer
\* cycles than boundaries may have run.
C17_NoCatchUp ==
    /\ [](cycles <= iterations /\ iterations <= cycles + 1)
    /\ [][Rescheduled =>
            /\ FirstBoundaryAfter(clock, next_scheduled_run')
            /\ UNCHANGED <<cycles, calls, gauges>>]_vars

\* A boundary lies between the start of the last cycle and the instant line
\* 93 read, and the next run is a later one.
C17_Witness ==
    /\ iterations = 2
    /\ pc = "compute_sleep"
    /\ ticks = 0
    /\ OnGrid(now)
    /\ ~Before(clock, Plus(now, GridStep(now)))
    /\ Before(Plus(now, GridStep(now)), next_scheduled_run)

GaugeOfRoute(k) == GaugeFor(CatalogOrder[k])

\* C18: when the probe of the k-th route raises, the gauges written earlier
\* in the cycle keep their new values, no gauge of route k or a later one
\* has been written, no later route is probed and the process has ended.
C18_FaultKeepsEarlierWrites ==
    /\ [](Terminated =>
            LET k == Len(calls) IN
              /\ Len(secs) = k - 1
              /\ \A j \in 1..(k - 1) :
                   secs[j] # None => gauges[GaugeOfRoute(j)] = secs[j]
              /\ \A c \in DOMAIN set_calls :
                   \E j \in 1..(k - 1) : set_calls[c][1] = GaugeOfRoute(j)
              /\ cycles = 1 =>
                   \A j \in k..Len(CatalogOrder) : gauges[GaugeOfRoute(j)] = Unset)
    /\ [][(~Terminated /\ outcome'.raised /\ in_flight' < in_flight) =>
            /\ Terminated'
            /\ UNCHANGED <<gauges, set_calls, calls, secs>>]_vars
    /\ [][Terminated => UNCHANGED <<pc, gauges, calls, secs, cycles>>]_vars

C18_Witness ==
    /\ Terminated
    /\ outcome.raised
    /\ cycles = 1
    /\ secs = <<1200, None>>
    /\ Len(calls) = 3
    /\ gauges["commute_time_seconds_to_ekz"] = 1200
    /\ gauges["commute_time_seconds_trins_to_b3"] = Unset

AllGaugesDefault == \A g \in GaugeNames : gauges[g] = Unset

\* C19: nothing is measured at start-up: until the first next-run instant,
\* the first boundary strictly after the start (at most 15 minutes later by
\* day, at most an hour later by night), no probe is made and every gauge
\* keeps its default.
C19_NoMeasurementAtStartup ==
    /\ cycles = 0 => AllGaugesDefault /\ calls = <<>> /\ in_flight = 0
    /\ iterations = 0 => cycles = 0
    /\ (iterations = 1 /\ Before(clock, next_scheduled_run)) => cycles = 0
    /\ (iterations = 1 /\ pc = "compute_sleep" /\ ticks = 0) =>
           FirstBoundaryAfter(clock, next_scheduled_run)

C19_Witness ==
    /\ pc = "sleeping"
    /\ clock = DT(0, 10, 5, 0, 0)
    /\ sleep_duration = TD(600, 0)
    /\ cycles = 0
    /\ AllGaugesDefault

---------------------------------------------------------------------------
(* A probe call that does not return *)

\* A step during which an external call stays outstanding.
CallStaysOut == in_flight > 0 /\ in_flight' >= in_flight

\* C15: there is no timeout on the external call: for as long as it has not
\* returned, whatever time passes, no further route is probed, no cycle
\* starts and no gauge changes, while a scrape is still served and reads the
\* values the gauges had before.
C15_HangStallsLoop ==
    /\ [](in_flight > 0 => (pc = "await" /\ ENABLED Scrape))
    /\ [][CallStaysOut =>
            /\ UNCHANGED <<pc, idx, secs, calls, gauges, set_calls, log,
                           cycles, iterations, active, next_scheduled_run>>
            /\ exposed' # exposed => exposed' = gauges]_vars

\* The call of the second route of the second cycle has been outstanding
\* for more than a quarter of an hour, and a scrape has read for that route
\* the value of the first cycle.
C15_Witness ==
    /\ pc = "await"
    /\ in_flight = 1
    /\ cycles = 2
    /\ idx = 2
    /\ ~Before(clock, Plus(now, TD(15 * SecondsPerMinute, 0)))
    /\ gauges["commute_time_seconds_to_ekz"] = 0
    /\ gauges["commute_time_seconds_to_b3"] = 1200
    /\ exposed = gauges

---------------------------------------------------------------------------
(* The grid of the running loop *)

\* A step that starts a cycle.
CycleStarts == pc = "update" /\ pc' = "call"

\* C14: with cycles shorter than a quarter of an hour and sleeps that return
\* on time, every cycle starts on an instant of the grid (a full hour, or a
\* quarter of an hour of the hours 6 to 19) and the next cycle starts on the
\* first instant of the grid after it, whenever the process was started: no
\* cycle starts at :15, :30 or :45 of the hours 20 to 5, and none of the
\* instants of the grid is left out, 20:00 and 06:00 included.
C14_CalendarAligned ==
    /\ [][CycleStarts =>
            /\ now' = next_scheduled_run
            /\ OnGrid(now')
            /\ cycles > 0 => FirstBoundaryAfter(now, now')]_vars
    /\ [](pc \in {"call", "await"} =>
            /\ OnGrid(now)
            /\ Before(clock, Plus(now, TD(15 * SecondsPerMinute, 0))))

\* The cycle of 20:00 has run, after earlier ones, and the next run is at
\* 21:00.
C14_Witness ==
    /\ pc = "compute_sleep"
    /\ cycles = MaxCycles
    /\ iterations = MaxCycles
    /\ now.hour = 20
    /\ now.minute = 0
    /\ Before(now, clock)
    /\ next_scheduled_run.hour = 21

---------------------------------------------------------------------------
(* The loop repeats forever *)

\* The state in which a cycle has just started.
CycleStarted == pc = "call" /\ idx = 1

\* The state in which a cycle that started at or after the next-run instant
\* has probed every route.
CycleCompleted ==
    /\ pc = "schedule"
    /\ Len(secs) = NumBlocks
    /\ ~Before(now, next_scheduled_run)

\* C13: when every statement of the loop is executed in the end, every sleep
\* returns and every call returns without a fault, a cycle is started again
\* and again, and every next-run instant line 93 computes is followed by a
\* cycle that starts at or after it and completes.
C13_LoopForever ==
    /\ []<>CycleStarted
    /\ (pc = "compute_sleep") ~> CycleCompleted
    /\ [][pc # "schedule" => next_scheduled_run' = next_scheduled_run]_vars

\* A later iteration, past midnight, has completed its cycle.
C13_Witness ==
    /\ CycleCompleted
    /\ cycles = MaxCycles
    /\ iterations = MaxCycles
    /\ clock.day = 1

=============================================================================
